---- MODULE Spec2Model ----
(***************************************************************************)
(* AI Study Notes Generator (src/app.py): the chunking-and-assembly        *)
(* pipeline.  Text is a sequence of code points (one-character strings;    *)
(* a code point outside ASCII is written "U+xxxx").  The summarization     *)
(* model is an external capability: a call either raises or returns a      *)
(* summary text.                                                           *)
(***************************************************************************)
EXTENDS Integers, Sequences, FiniteSets, TLC

VARIABLES
    input_text,       \* the text handed to the pipeline (main: input_text; generators: text)
    note_type,        \* sidebar selectbox (main, line 287)
    detail_level,     \* sidebar slider (main, line 293)
    summarizer,       \* the cached summarization capability (load_summarizer)
    progress_bar,     \* TRUE iff a progress sink is supplied to the generator
    max_tokens,       \* argument of split_text_into_chunks
    generated_notes,  \* st.session_state.generated_notes
    pc,               \* position of the running handler / call
    formats,          \* main: the list of formats of the current run
    fi,               \* main: 1-based index of the next format of the loop at line 398
    results,          \* main: the results mapping of the current run
    ui,               \* messages the current script run has rendered (st.markdown/success/error)
    now,              \* wall clock, in seconds since the session's day began
    out               \* the value returned by the last call of a pure function

vars == <<input_text, note_type, detail_level, summarizer, progress_bar, max_tokens,
          generated_notes, pc, formats, fi, results, ui, now, out>>

(***************************************************************************)
(* Bounds of the model.                                                    *)
(***************************************************************************)
MaxWords == 4
MaxWordsPerChunk == 3
MaxScriptLen == 2
MaxRuns == 2
MidTextWords == 1000
BigTextWords == 2526

(***************************************************************************)
(* Python string and list primitives used by the pipeline.                 *)
(***************************************************************************)
Min(a, b) == IF a < b THEN a ELSE b

Indices(s) == [i \in 1..Len(s) |-> i]

\* str.isspace for the code points of the model
IsSpace(c) == c \in {" ", "\n", "\t"}

\* s[a:b] with 0-based a and exclusive b, clamped to the length as Python does
Slice(s, a, b) == SubSeq(s, a + 1, Min(b, Len(s)))

\* s[:n]
Take(s, n) == Slice(s, 0, n)

\* str.split() with no separator: the maximal runs of non-whitespace, in order
split(s) ==
    LET starts == SelectSeq(Indices(s),
                      LAMBDA i : ~IsSpace(s[i]) /\ (i = 1 \/ IsSpace(s[i - 1])))
        ends == SelectSeq(Indices(s),
                      LAMBDA i : ~IsSpace(s[i]) /\ (i = Len(s) \/ IsSpace(s[i + 1])))
    IN  [k \in 1..Len(starts) |-> SubSeq(s, starts[k], ends[k])]

\* str.strip(): leading and trailing whitespace removed
strip(s) ==
    LET ns == SelectSeq(Indices(s), LAMBDA i : ~IsSpace(s[i]))
    IN  IF ns = <<>> THEN <<>> ELSE SubSeq(s, ns[1], ns[Len(ns)])

\* sep.join(parts[lo..hi]), by halving so that long lists stay shallow
RECURSIVE join_range(_, _, _, _)
join_range(sep, parts, lo, hi) ==
    IF lo > hi THEN <<>>
    ELSE IF lo = hi THEN parts[lo]
    ELSE LET mid == (lo + hi) \div 2
         IN  join_range(sep, parts, lo, mid) \o sep \o join_range(sep, parts, mid + 1, hi)

\* sep.join(parts)
join(sep, parts) == join_range(sep, parts, 1, Len(parts))

\* range(start, stop, step) for step >= 1, as a sequence
range(start, stop, step) ==
    IF stop <= start THEN <<>>
    ELSE [k \in 1..((stop - start + step - 1) \div step) |-> start + (k - 1) * step]

(***************************************************************************)
(* Text processing: split_text_into_chunks.                                *)
(***************************************************************************)
MinChunkChars == 50

\* a slip of the slice bound: each window also takes the first word of the next
split_text_into_chunks_overlap(text, max_tok) ==
    LET words == split(text)
        starts == range(0, Len(words), max_tok)
        window == [k \in 1..Len(starts) |->
                      join(<<" ">>, Slice(words, starts[k], starts[k] + max_tok + 1))]
    IN  SelectSeq(window, LAMBDA chunk : Len(strip(chunk)) > MinChunkChars)

\* a slip of the comparison: >= for >
split_text_into_chunks_ge(text, max_tok) ==
    LET words == split(text)
        starts == range(0, Len(words), max_tok)
        window == [k \in 1..Len(starts) |->
                      join(<<" ">>, Slice(words, starts[k], starts[k] + max_tok))]
    IN  SelectSeq(window, LAMBDA chunk : Len(strip(chunk)) >= MinChunkChars)

split_text_into_chunks(text, max_tok) ==
    LET words == split(text)
        starts == range(0, Len(words), max_tok)
        window == [k \in 1..Len(starts) |->
                      join(<<" ">>, Slice(words, starts[k], starts[k] + max_tok))]
    IN  SelectSeq(window, LAMBDA chunk : Len(strip(chunk)) > MinChunkChars)

\* str.split(sep) for a non-empty separator: the pieces between the successive
\* non-overlapping occurrences of sep, scanning from the left
RECURSIVE split_sep_from(_, _, _)
split_sep_from(s, sep, from) ==
    LET hits == {p \in from..(Len(s) - Len(sep) + 1) : SubSeq(s, p, p + Len(sep) - 1) = sep}
    IN  IF hits = {} THEN <<SubSeq(s, from, Len(s))>>
        ELSE LET p == CHOOSE q \in hits : \A h \in hits : q <= h
             IN  <<SubSeq(s, from, p - 1)>> \o split_sep_from(s, sep, p + Len(sep))

split_sep(s, sep) == split_sep_from(s, sep, 1)

\* str.endswith(suffix)
endswith(s, suffix) ==
    /\ Len(s) >= Len(suffix)
    /\ SubSeq(s, Len(s) - Len(suffix) + 1, Len(s)) = suffix

Digit(d) == <<"0", "1", "2", "3", "4", "5", "6", "7", "8", "9">>[d + 1]

\* str(n), the decimal digits of a natural number (as an f-string renders it)
RECURSIVE str(_)
str(n) == IF n < 10 THEN <<Digit(n)>> ELSE str(n \div 10) \o <<Digit(n % 10)>>

(***************************************************************************)
(* The summarization capability.  A call either raises (ok = FALSE) or     *)
(* returns a summary text; which, is the environment's choice.  The value  *)
(* of `summarizer` is the list of answers the capability gives to the      *)
(* successive calls of one generator, repeated cyclically.                 *)
(***************************************************************************)
Answer(summ, k) == summ[((k - 1) % Len(summ)) + 1]

\* what a generator does around one chunk, as observed from outside: the progress
\* signal (if a sink is supplied), the summarizer call with its arguments, and the
\* outcome of the call
Event(kind, i, a, b, text) == [kind |-> kind, i |-> i, a |-> a, b |-> b, text |-> text]

\* lines 138-146 (and the same lines of the other generators): the progress call,
\* then summarizer(chunk[:3000], max_length=.., min_length=.., do_sample=False)
Attempt(events, pb, i, total, chunk, max_length, min_length, r) ==
    (IF pb THEN Append(events, Event("progress", i, i + 1, total, <<>>)) ELSE events)
        \o <<Event("call", i, max_length, min_length, Take(chunk, 3000)),
             Event(IF r.ok THEN "summary" ELSE "error", i, 0, 0,
                   IF r.ok THEN r.summary_text ELSE <<>>)>>

\* a handler that lets the exception through
BareExceptNarrow(r) == FALSE

\* `except: continue`: the bare except clause catches whatever the try body raised
BareExcept(r) == TRUE

Loop(acc, events, raised) == [acc |-> acc, events |-> events, raised |-> raised]

Return(value, chunks, loop) ==
    [value |-> IF loop.raised THEN <<>> ELSE value, chunks |-> chunks,
     raised |-> loop.raised, events |-> loop.events]

(***************************************************************************)
(* generate_comprehensive_summary                                          *)
(***************************************************************************)
RECURSIVE comprehensive_summary_loop(_, _, _, _, _, _, _, _)
comprehensive_summary_loop(chunks, summ, max_length, min_length, pb, i, summaries, events) ==
    IF i >= Len(chunks) THEN Loop(summaries, events, FALSE)
    ELSE LET r == Answer(summ, i + 1)
             ev == Attempt(events, pb, i, Len(chunks), chunks[i + 1], max_length, min_length, r)
         IN  IF r.ok
             THEN comprehensive_summary_loop(chunks, summ, max_length, min_length, pb, i + 1,
                                             Append(summaries, r.summary_text), ev)
             ELSE IF BareExcept(r)
             THEN comprehensive_summary_loop(chunks, summ, max_length, min_length, pb, i + 1,
                                             summaries, ev)
             ELSE Loop(summaries, ev, TRUE)

\* lines 151-154
comprehensive_summary_result(summaries) ==
    IF summaries = <<>> THEN <<"C", "o", "u", "l", "d", " ", "n", "o", "t", " ", "g", "e", "n", "e", "r", "a", "t", "e", " ", "s", "u", "m", "m", "a", "r", "y", ".">>
    ELSE join(<<"\n", "\n">>,
              [j \in 1..Len(summaries) |->
                  <<"U+1F4CC", " ", "S", "e", "c", "t", "i", "o", "n", " ">> \o str((j - 1) + 1) \o <<":", "\n">> \o summaries[j]])

generate_comprehensive_summary(text, summ, dl, pb) ==
    LET max_length == 100 + (dl * 30)
        min_length == 30 + (dl * 10)
        chunks == split_text_into_chunks(text, 400)
        loop == comprehensive_summary_loop(chunks, summ, max_length, min_length, pb, 0, <<>>, <<>>)
    IN  Return(comprehensive_summary_result(loop.acc), chunks, loop)

(***************************************************************************)
(* generate_bullet_points                                                  *)
(***************************************************************************)
\* lines 173-175
bullet_points_of(summary) ==
    LET sentences == SelectSeq(split_sep(summary, <<".", " ">>), LAMBDA s : Len(strip(s)) > 10)
    IN  [j \in 1..Len(sentences) |->
            <<"U+2022", " ">> \o strip(sentences[j])
                \o (IF ~endswith(sentences[j], <<".">>) THEN <<".">> ELSE <<>>)]

RECURSIVE bullet_points_loop(_, _, _, _, _, _)
bullet_points_loop(chunks, summ, pb, i, all_points, events) ==
    IF i >= Len(chunks) THEN Loop(all_points, events, FALSE)
    ELSE LET r == Answer(summ, i + 1)
             ev == Attempt(events, pb, i, Len(chunks), chunks[i + 1], 120, 30, r)
         IN  IF r.ok
             THEN bullet_points_loop(chunks, summ, pb, i + 1,
                                     all_points \o bullet_points_of(r.summary_text), ev)
             ELSE IF BareExcept(r)
             THEN bullet_points_loop(chunks, summ, pb, i + 1, all_points, ev)
             ELSE Loop(all_points, ev, TRUE)

\* a result without the fallback
bullet_points_result_joined(all_points) == join(<<"\n">>, all_points)

\* line 180
bullet_points_result(all_points) ==
    IF all_points # <<>> THEN join(<<"\n">>, all_points) ELSE <<"C", "o", "u", "l", "d", " ", "n", "o", "t", " ", "g", "e", "n", "e", "r", "a", "t", "e", " ", "b", "u", "l", "l", "e", "t", " ", "p", "o", "i", "n", "t", "s", ".">>

generate_bullet_points(text, summ, dl, pb) ==
    LET chunks == split_text_into_chunks(text, 400)
        loop == bullet_points_loop(chunks, summ, pb, 0, <<>>, <<>>)
    IN  Return(bullet_points_result(loop.acc), chunks, loop)

(***************************************************************************)
(* generate_flashcards                                                     *)
(***************************************************************************)
\* lines 200-204
flashcard_of(summary) ==
    LET sentences == split_sep(summary, <<".", " ">>)
    IN  IF Len(sentences) > 0
        THEN LET question == <<"W", "h", "a", "t", " ", "i", "s", " ", "i", "m", "p", "o", "r", "t", "a", "n", "t", " ", "a", "b", "o", "u", "t", ":", " ">> \o Take(sentences[1], 50) \o <<".", ".", ".", "?">>
             IN  <<<<"Q", ":", " ">> \o question \o <<"\n", "A", ":", " ">> \o summary>>
        ELSE <<>>

RECURSIVE flashcards_loop(_, _, _, _, _, _, _)
flashcards_loop(chunks, num_cards, summ, pb, i, flashcards, events) ==
    IF i >= Len(Take(chunks, num_cards)) THEN Loop(flashcards, events, FALSE)
    ELSE LET r == Answer(summ, i + 1)
             ev == Attempt(events, pb, i, Min(Len(chunks), num_cards),
                           Take(chunks, num_cards)[i + 1], 80, 20, r)
         IN  IF r.ok
             THEN flashcards_loop(chunks, num_cards, summ, pb, i + 1,
                                  flashcards \o flashcard_of(r.summary_text), ev)
             ELSE IF BareExcept(r)
             THEN flashcards_loop(chunks, num_cards, summ, pb, i + 1, flashcards, ev)
             ELSE Loop(flashcards, ev, TRUE)

\* line 208
flashcards_result(flashcards) ==
    IF flashcards # <<>>
    THEN join(<<"\n", "\n">>,
              [j \in 1..Len(flashcards) |->
                  <<"-", "-", "-", " ", "C", "a", "r", "d", " ">> \o str((j - 1) + 1) \o <<" ", "-", "-", "-", "\n">> \o flashcards[j]])
    ELSE <<"C", "o", "u", "l", "d", " ", "n", "o", "t", " ", "g", "e", "n", "e", "r", "a", "t", "e", " ", "f", "l", "a", "s", "h", "c", "a", "r", "d", "s", ".">>

\* a cap of four cards per detail level
num_cards_of_four(dl) == dl * 4

\* line 184
num_cards_of(dl) == dl * 5

generate_flashcards(text, summ, dl, pb) ==
    LET num_cards == num_cards_of(dl)
        chunks == split_text_into_chunks(text, 500)
        loop == flashcards_loop(chunks, num_cards, summ, pb, 0, <<>>, <<>>)
    IN  Return(flashcards_result(loop.acc), chunks, loop)

(***************************************************************************)
(* generate_qa_format                                                      *)
(***************************************************************************)
\* numbering from the 0-based loop index
qa_pair_of_index(i, summary) ==
    LET words == split(summary)
    IN  IF Len(words) > 10
        THEN LET question == <<"Q">> \o str(i) \o <<":", " ", "E", "x", "p", "l", "a", "i", "n", " ", "-", " ">>
                                 \o join(<<" ">>, Take(words, 8)) \o <<".", ".", ".", "?">>
                 answer == <<"A">> \o str(i) \o <<":", " ">> \o summary
             IN  <<question \o <<"\n">> \o answer>>
        ELSE <<>>

\* lines 228-232
qa_pair_of(i, summary) ==
    LET words == split(summary)
    IN  IF Len(words) > 10
        THEN LET question == <<"Q">> \o str(i + 1) \o <<":", " ", "E", "x", "p", "l", "a", "i", "n", " ", "-", " ">>
                                 \o join(<<" ">>, Take(words, 8)) \o <<".", ".", ".", "?">>
                 answer == <<"A">> \o str(i + 1) \o <<":", " ">> \o summary
             IN  <<question \o <<"\n">> \o answer>>
        ELSE <<>>

RECURSIVE qa_format_loop(_, _, _, _, _, _, _)
qa_format_loop(chunks, num_questions, summ, pb, i, qa_pairs, events) ==
    IF i >= Len(Take(chunks, num_questions)) THEN Loop(qa_pairs, events, FALSE)
    ELSE LET r == Answer(summ, i + 1)
             ev == Attempt(events, pb, i, Min(Len(chunks), num_questions),
                           Take(chunks, num_questions)[i + 1], 100, 30, r)
         IN  IF r.ok
             THEN qa_format_loop(chunks, num_questions, summ, pb, i + 1,
                                 qa_pairs \o qa_pair_of(i, r.summary_text), ev)
             ELSE IF BareExcept(r)
             THEN qa_format_loop(chunks, num_questions, summ, pb, i + 1, qa_pairs, ev)
             ELSE Loop(qa_pairs, ev, TRUE)

\* line 236
qa_format_result(qa_pairs) ==
    IF qa_pairs # <<>> THEN join(<<"\n", "\n">>, qa_pairs) ELSE <<"C", "o", "u", "l", "d", " ", "n", "o", "t", " ", "g", "e", "n", "e", "r", "a", "t", "e", " ", "Q", "&", "A", " ", "p", "a", "i", "r", "s", ".">>

generate_qa_format(text, summ, dl, pb) ==
    LET chunks == split_text_into_chunks(text, 400)
        num_questions == dl * 3
        loop == qa_format_loop(chunks, num_questions, summ, pb, 0, <<>>, <<>>)
    IN  Return(qa_format_result(loop.acc), chunks, loop)

(***************************************************************************)
(* generate_concept_map                                                    *)
(***************************************************************************)
RECURSIVE concept_map_loop(_, _, _, _, _, _, _)
concept_map_loop(chunks, cap, summ, pb, i, concepts, events) ==
    IF i >= Len(Take(chunks, cap)) THEN Loop(concepts, events, FALSE)
    ELSE LET r == Answer(summ, i + 1)
             ev == Attempt(events, pb, i, Min(Len(chunks), cap),
                           Take(chunks, cap)[i + 1], 60, 20, r)
         IN  IF r.ok
             THEN concept_map_loop(chunks, cap, summ, pb, i + 1,
                                   Append(concepts, r.summary_text), ev)
             ELSE IF BareExcept(r)
             THEN concept_map_loop(chunks, cap, summ, pb, i + 1, concepts, ev)
             ELSE Loop(concepts, ev, TRUE)

\* "=" * n
Repeat(c, n) == [k \in 1..n |-> c]

\* lines 262-263 with enumerate(concepts) starting at 0
RECURSIVE concept_nodes_from_zero(_, _)
concept_nodes_from_zero(concepts, j) ==
    IF j > Len(concepts) THEN <<>>
    ELSE <<"U+251C", "U+2500", " ", "C", "o", "n", "c", "e", "p", "t", " ">> \o str(j - 1) \o <<"\n", "U+2502", " ", " ", "U+2514", "U+2500", " ">> \o concepts[j] \o <<"\n", "U+2502", "\n">>
             \o concept_nodes_from_zero(concepts, j + 1)

\* lines 262-263: for i, concept in enumerate(concepts, 1): result += ...
RECURSIVE concept_nodes(_, _)
concept_nodes(concepts, j) ==
    IF j > Len(concepts) THEN <<>>
    ELSE <<"U+251C", "U+2500", " ", "C", "o", "n", "c", "e", "p", "t", " ">> \o str(j) \o <<"\n", "U+2502", " ", " ", "U+2514", "U+2500", " ">> \o concepts[j] \o <<"\n", "U+2502", "\n">>
             \o concept_nodes(concepts, j + 1)

\* lines 258-265
concept_map_result(concepts) ==
    IF concepts = <<>> THEN <<"C", "o", "u", "l", "d", " ", "n", "o", "t", " ", "g", "e", "n", "e", "r", "a", "t", "e", " ", "c", "o", "n", "c", "e", "p", "t", " ", "m", "a", "p", ".">>
    ELSE <<"U+1F4CA", " ", "C", "O", "N", "C", "E", "P", "T", " ", "M", "A", "P", "\n">> \o Repeat("=", 50) \o <<"\n", "\n", "M", "a", "i", "n", " ", "T", "o", "p", "i", "c", "\n", "|", "\n">> \o concept_nodes(concepts, 1)

generate_concept_map(text, summ, dl, pb) ==
    LET chunks == split_text_into_chunks(text, 500)
        loop == concept_map_loop(chunks, dl * 2, summ, pb, 0, <<>>, <<>>)
    IN  Return(concept_map_result(loop.acc), chunks, loop)

(***************************************************************************)
(* Input texts of the chunker's check: up to MaxWords words, of lengths on *)
(* both sides of the 50-character threshold, laid out with different       *)
(* whitespace.                                                             *)
(***************************************************************************)
Word(c, n) == [i \in 1..n |-> c]

WordShapes == {Word("a", 1), Word("b", 24), Word("c", 25), Word("d", 51)}

WordLists == UNION {[1..n -> WordShapes] : n \in 0..MaxWords}

Layouts == {[lead |-> <<>>, sep |-> <<" ">>, trail |-> <<>>],
            [lead |-> <<>>, sep |-> <<" ", "\n">>, trail |-> <<"\n">>],
            [lead |-> <<"\t", " ">>, sep |-> <<" ">>, trail |-> <<" ">>]}

Layout(l, ws) == l.lead \o join(l.sep, ws) \o l.trail

ChunkerTexts == {Layout(l, ws) : l \in Layouts, ws \in WordLists}

(***************************************************************************)
(* Inputs of the generators' check: the answers of the summarization       *)
(* capability and the texts.                                               *)
(***************************************************************************)
Fail == [ok |-> FALSE, summary_text |-> <<>>]

Summary(t) == [ok |-> TRUE, summary_text |-> t]

\* two sentences, 13 words, the first sentence of 54 characters
LongSummary == <<"a", "a", "a", "a", " ", "b", "b", "b", "b", " ", "c", "c", "c", "c", " ", "d", "d", "d", "d", " ", "e", "e", "e", "e", " ", "f", "f", "f", "f", " ", "g", "g", "g", "g", " ", "h", "h", "h", "h", " ", "i", "i", "i", "i", " ", "j", "j", "j", "j", " ", "k", "k", "k", "k", ".", " ", "l", "l", "l", "l", " ", "m", "m", "m", "m", ".">>

\* one sentence of 10 characters, 2 words
ShortSummary == <<"T", "o", "o", " ", "s", "h", "o", "r", "t", ".">>

Answers == {Fail, Summary(LongSummary), Summary(ShortSummary)}

Scripts == UNION {[1..n -> Answers] : n \in 1..MaxScriptLen}

\* n words of wlen characters each, separated by sep; neighbouring words differ
WordsText(n, wlen, sep) ==
    join(sep, [k \in 1..n |-> Word(<<"a", "b", "c">>[(k % 3) + 1], wlen)])

FiftyWordTexts == {WordsText(50, 1, <<" ">>), WordsText(50, 4, <<"\n">>),
                   <<" ">> \o WordsText(50, 9, <<" ", " ">>) \o <<"\n">>}

GenTexts ==
    {<<>>, <<" ", "\n">>, WordsText(3, 5, <<" ">>)}
        \cup FiftyWordTexts
        \cup {WordsText(MidTextWords, 1, <<" ">>), WordsText(BigTextWords, 1, <<" ">>),
              WordsText(450, 7, <<" ">>)}

\* slider bounds, lines 293-299
DetailLevels == 1..5

NoOut == [fn |-> "none", chunks |-> <<>>, value |-> <<>>, raised |-> FALSE, events |-> <<>>]

Out(fn, r) ==
    [fn |-> fn, chunks |-> r.chunks, value |-> r.value, raised |-> r.raised, events |-> r.events]

\* the session of the Streamlit app before any interaction (lines 277-280, 340)
NoSession ==
    /\ note_type = "Comprehensive Summary"
    /\ generated_notes = [set |-> FALSE]
    /\ formats = <<>>
    /\ fi = 0
    /\ results = <<>>
    /\ ui = <<>>
    /\ now = 0

InitChunker ==
    /\ input_text \in ChunkerTexts
    /\ max_tokens \in 1..MaxWordsPerChunk
    /\ detail_level = 3
    /\ summarizer = <<Fail>>
    /\ progress_bar = FALSE
    /\ pc = "call"
    /\ out = NoOut
    /\ NoSession

\* one call chunks = split_text_into_chunks(text, max_tokens)
CallChunker ==
    /\ pc = "call"
    /\ out' = [NoOut EXCEPT !.fn = "split_text_into_chunks",
                            !.chunks = split_text_into_chunks(input_text, max_tokens)]
    /\ pc' = "returned"
    /\ UNCHANGED <<input_text, note_type, detail_level, summarizer, progress_bar, max_tokens,
                   generated_notes, formats, fi, results, ui, now>>

NextChunker == CallChunker

SpecChunker == InitChunker /\ [][NextChunker]_vars

(***************************************************************************)
(* One call of one Format Generator on drawn inputs.                       *)
(***************************************************************************)
InitGen ==
    /\ input_text \in GenTexts
    /\ detail_level \in DetailLevels
    /\ summarizer \in Scripts
    /\ progress_bar \in BOOLEAN
    /\ max_tokens = 0
    /\ pc = "call"
    /\ out = NoOut
    /\ NoSession

\* lines 403-412: the generator of a format
Generate(fmt, text, summ, dl, pb) ==
    CASE fmt = "Comprehensive Summary" -> generate_comprehensive_summary(text, summ, dl, pb)
      [] fmt = "Bullet Points" -> generate_bullet_points(text, summ, dl, pb)
      [] fmt = "Flashcards" -> generate_flashcards(text, summ, dl, pb)
      [] fmt = "Q&A Format" -> generate_qa_format(text, summ, dl, pb)
      [] fmt = "Concept Map" -> generate_concept_map(text, summ, dl, pb)

CallGenerator(fmt) ==
    /\ pc = "call"
    /\ out' = Out(fmt, Generate(fmt, input_text, summarizer, detail_level, progress_bar))
    /\ pc' = "returned"
    /\ UNCHANGED <<input_text, note_type, detail_level, summarizer, progress_bar, max_tokens,
                   generated_notes, formats, fi, results, ui, now>>

CallComprehensiveSummary == CallGenerator("Comprehensive Summary")
CallBulletPoints == CallGenerator("Bullet Points")
CallFlashcards == CallGenerator("Flashcards")
CallQAFormat == CallGenerator("Q&A Format")
CallConceptMap == CallGenerator("Concept Map")

NextGen ==
    \/ CallComprehensiveSummary
    \/ CallBulletPoints
    \/ CallFlashcards
    \/ CallQAFormat
    \/ CallConceptMap

SpecGen == InitGen /\ [][NextGen]_vars

(***************************************************************************)
(* The Streamlit session: the widgets and the generate-button handler of   *)
(* main.  Every interaction re-runs the script on a fresh page; the        *)
(* handler is cut at the iterations of its loop over the formats.          *)
(***************************************************************************)
\* line 394
AllFormats == <<"Comprehensive Summary", "Bullet Points", "Flashcards", "Q&A Format",
                "Concept Map">>

\* line 289
NoteTypes == {AllFormats[k] : k \in 1..Len(AllFormats)} \cup {"All Formats"}

\* texts the user pastes or uploads
SessionTexts == {<<>>, <<" ", "\n">>, WordsText(50, 1, <<" ">>)}

\* the capabilities load_summarizer may hand out
SessionScripts == {<<Summary(LongSummary)>>}

\* positions the user moves the slider to (it starts at 3)
SessionDetailLevels == {1, 5}

None == [set |-> FALSE, content |-> <<>>, timestamp |-> <<>>, detail_level |-> 0,
         original_length |-> 0]

\* a rendered element: the Streamlit call, what it reports, and the format it names
Shown(call, what, fmt) == [call |-> call, what |-> what, fmt |-> fmt]

\* d[k] = v on a dict, which keeps insertion order
DictSet(d, k, v) ==
    IF \E j \in 1..Len(d) : d[j].key = k
    THEN [j \in 1..Len(d) |-> IF d[j].key = k THEN [key |-> k, value |-> v] ELSE d[j]]
    ELSE Append(d, [key |-> k, value |-> v])

Keys(d) == {d[j].key : j \in 1..Len(d)}

Init ==
    /\ input_text = <<>>
    /\ note_type = "Comprehensive Summary"
    /\ detail_level = 3
    /\ summarizer \in SessionScripts
    /\ progress_bar = TRUE
    /\ max_tokens = 0
    /\ generated_notes = None
    /\ pc = "idle"
    /\ formats = <<>>
    /\ fi = 0
    /\ results = <<>>
    /\ ui = <<>>
    /\ now = 0
    /\ out = NoOut

\* an interaction re-runs the script: the page and the locals of main start afresh
Rerun ==
    /\ ui' = <<>>
    /\ results' = <<>>
    /\ formats' = <<>>
    /\ fi' = 0

\* lines 325-355: a file is uploaded or text is pasted
ProvideText(t) ==
    /\ pc = "idle"
    /\ input_text' = t
    /\ Rerun
    /\ UNCHANGED <<note_type, detail_level, summarizer, progress_bar, max_tokens,
                   generated_notes, pc, now, out>>

\* lines 287-290
SelectNoteType(nt) ==
    /\ pc = "idle"
    /\ note_type' = nt
    /\ Rerun
    /\ UNCHANGED <<input_text, detail_level, summarizer, progress_bar, max_tokens,
                   generated_notes, pc, now, out>>

\* lines 293-299
SetDetailLevel(dl) ==
    /\ pc = "idle"
    /\ detail_level' = dl
    /\ Rerun
    /\ UNCHANGED <<input_text, note_type, summarizer, progress_bar, max_tokens,
                   generated_notes, pc, now, out>>

\* lines 380-396: the button is clicked; without text the handler only reports,
\* otherwise it loads the model and sets up the loop.  A click takes the clock
\* to the next second.
ClickGenerate ==
    /\ pc = "idle"
    /\ now < MaxRuns
    /\ now' = now + 1
    /\ IF input_text = <<>>
       THEN /\ ui' = <<Shown("st.error", "provide study material", "")>>
            /\ results' = <<>>
            /\ formats' = <<>>
            /\ fi' = 0
            /\ pc' = pc
       ELSE /\ ui' = <<Shown("st.success", "model loaded", "")>>
            /\ results' = <<>>
            /\ formats' = IF note_type = "All Formats" THEN AllFormats ELSE <<note_type>>
            /\ fi' = 1
            /\ pc' = "generating"
    /\ UNCHANGED <<input_text, note_type, detail_level, summarizer, progress_bar, max_tokens,
                   generated_notes, out>>

\* lines 414-416: the generator returned
try_body(res, fmt, result) ==
    [results |-> DictSet(res, fmt, result),
     ui |-> <<Shown("st.success", "complete", fmt)>>]

\* an except clause that records a marker in the results mapping
except_body_marker(res, fmt) ==
    [results |-> DictSet(res, fmt, <<"E", "r", "r", "o", "r">>),
     ui |-> <<Shown("st.error", "error generating", fmt)>>]

\* lines 418-420: the generator raised
except_body(res, fmt) ==
    [results |-> res,
     ui |-> <<Shown("st.error", "error generating", fmt)>>]

\* a clause that catches nothing
ExceptNothing(raised) == FALSE

\* line 418: `except Exception` catches what the try body raised
ExceptException(raised) == raised

\* lines 398-420: one iteration of the loop over the formats.  The generator of
\* the format returns, or raises (fault: an error outside the summarizer calls,
\* which the generator does not catch).
AttemptFormat(fault) ==
    /\ pc = "generating"
    /\ fi <= Len(formats)
    /\ LET fmt == formats[fi]
           r == Generate(fmt, input_text, summarizer, detail_level, progress_bar)
           raised == fault \/ r.raised
           started == Append(ui, Shown("st.markdown", "generating", fmt))
       IN  IF ~raised
           THEN /\ results' = try_body(results, fmt, r.value).results
                /\ ui' = started \o try_body(results, fmt, r.value).ui
                /\ fi' = fi + 1
                /\ pc' = pc
           ELSE IF ExceptException(raised)
           THEN /\ results' = except_body(results, fmt).results
                /\ ui' = started \o except_body(results, fmt).ui
                /\ fi' = fi + 1
                /\ pc' = pc
           ELSE \* the exception leaves main: the script run ends with a traceback
                /\ ui' = Append(started, Shown("traceback", "uncaught", fmt))
                /\ pc' = "idle"
                /\ UNCHANGED <<results, fi>>
    /\ UNCHANGED <<input_text, note_type, detail_level, summarizer, progress_bar, max_tokens,
                   generated_notes, formats, now, out>>

\* a field of a timestamp, zero-padded to two digits (%m, %d, %H, %M, %S)
TwoDigits(n) == <<Digit((n \div 10) % 10), Digit(n % 10)>>

\* datetime.now().strftime("%Y-%m-%d %H:%M:%S"), for a clock that reads t seconds
\* after the midnight that starts the day of the session (t < 86400)
strftime(t) ==
    <<"2", "0", "2", "5", "-", "0", "1", "-", "0", "1", " ">>
        \o TwoDigits((t \div 3600) % 24) \o <<":">>
        \o TwoDigits((t \div 60) % 60) \o <<":">>
        \o TwoDigits(t % 60)

\* a NoteSet that keeps the entries of the one before
new_notes_merged(res, t, dl, text) ==
    [set |-> TRUE,
     content |-> generated_notes.content
                    \o SelectSeq(res, LAMBDA e : e.key \notin Keys(generated_notes.content)),
     timestamp |-> strftime(t), detail_level |-> dl, original_length |-> Len(text)]

\* lines 424-429
new_notes(res, t, dl, text) ==
    [set |-> TRUE, content |-> res, timestamp |-> strftime(t), detail_level |-> dl,
     original_length |-> Len(text)]

\* lines 422-432: after the loop
SaveNotes ==
    /\ pc = "generating"
    /\ fi > Len(formats)
    /\ IF results # <<>>
       THEN /\ generated_notes' = new_notes(results, now, detail_level, input_text)
            /\ ui' = ui \o <<Shown("st.balloons", "", ""),
                             Shown("st.success", "all notes generated", "")>>
       ELSE UNCHANGED <<generated_notes, ui>>
    /\ pc' = "idle"
    /\ UNCHANGED <<input_text, note_type, detail_level, summarizer, progress_bar, max_tokens,
                   formats, fi, results, now, out>>

Next ==
    \/ \E t \in SessionTexts : ProvideText(t)
    \/ \E nt \in NoteTypes : SelectNoteType(nt)
    \/ \E dl \in SessionDetailLevels : SetDetailLevel(dl)
    \/ ClickGenerate
    \/ \E fault \in BOOLEAN : AttemptFormat(fault)
    \/ SaveNotes

Spec == Init /\ [][Next]_vars

(***************************************************************************)
(* Properties of the Orchestrator (Spec).                                  *)
(***************************************************************************)
ShownFormats(what) ==
    LET sel == SelectSeq(ui, LAMBDA e : e.what = what)
    IN  [j \in 1..Len(sel) |-> sel[j].fmt]

\* the formats whose attempt was announced, in the order of the announcements
Attempted == ShownFormats("generating")

\* the formats whose generator raised / returned in the current run
Failed == {ShownFormats("error generating")[j] : j \in 1..Len(ShownFormats("error generating"))}
Completed == {ShownFormats("complete")[j] : j \in 1..Len(ShownFormats("complete"))}

\* the handler has just finished (the locals of the script run are still there)
RunEnded == pc = "idle" /\ formats # <<>>

\* C1: an exception of one format's generator is caught; the formats after it are
\* still attempted, all of them and in order; and the artifact of every format
\* that did not fail is in the NoteSet the run leaves.
C1_FailureDoesNotAbortRun ==
    /\ pc = "generating" => Attempted = SubSeq(formats, 1, fi - 1)
    /\ RunEnded =>
          /\ Attempted = formats
          /\ \A k \in 1..Len(formats) :
                formats[k] \notin Failed =>
                    /\ generated_notes.set
                    /\ generated_notes.timestamp = strftime(now)
                    /\ \E j \in 1..Len(generated_notes.content) :
                          /\ generated_notes.content[j].key = formats[k]
                          /\ generated_notes.content[j].value
                                = Generate(formats[k], input_text, summarizer,
                                           detail_level, TRUE).value

\* C1 witness: of all five formats the second failed, the other four are in the NoteSet
C1_Witness ==
    /\ RunEnded
    /\ formats = AllFormats
    /\ Failed = {"Bullet Points"}
    /\ generated_notes.set
    /\ Keys(generated_notes.content)
          = {"Comprehensive Summary", "Flashcards", "Q&A Format", "Concept Map"}

\* C2 as stated: the results mapping has an entry (the artifact, or an error
\* marker) for every format attempted so far, whether it succeeded or failed.
C2_EntryForEveryFormat ==
    (pc = "generating" \/ RunEnded) =>
        \A k \in 1..Len(Attempted) : Attempted[k] \in Keys(results)

\* C2 amended: when the generator of a format raises, the error is reported on the
\* page for that format and the results mapping gets no entry under it: the
\* mapping has entries exactly for the formats whose generator returned.
C2_EntryOnlyForCompletedFormats ==
    (pc = "generating" \/ RunEnded) =>
        /\ Keys(results) = Completed
        /\ Failed \cap Keys(results) = {}
        /\ Failed \cup Completed = {Attempted[k] : k \in 1..Len(Attempted)}
        /\ Failed \cap Completed = {}

\* C2 witness: in one run a format failed after another had completed
C2_Witness ==
    /\ pc = "generating"
    /\ Len(Attempted) >= 2
    /\ Attempted[1] \in Completed
    /\ Attempted[2] \in Failed
    /\ Keys(results) = {Attempted[1]}

NoteSetOfRun ==
    [set |-> TRUE, content |-> results, timestamp |-> strftime(now), detail_level |-> detail_level,
     original_length |-> Len(input_text)]

\* C3 as stated: the held NoteSet does not change while a format is still to be
\* attempted, and once all have been attempted the NoteSet of this run replaces it.
C3_AlwaysReplaced ==
    [][/\ (pc = "generating" /\ fi <= Len(formats)) => generated_notes' = generated_notes
       /\ (pc = "generating" /\ fi > Len(formats)) => generated_notes' = NoteSetOfRun]_vars

\* C3 amended: the held NoteSet does not change while a format is still to be
\* attempted; once all have been attempted and at least one generator returned,
\* the NoteSet of this run (content, timestamp, detail level, original length)
\* replaces it entirely; when every generator raised, no NoteSet is produced and
\* the held one stays.
C3_ReplacedUnlessAllFailed ==
    [][/\ (pc = "generating" /\ fi <= Len(formats)) => generated_notes' = generated_notes
       /\ (pc = "generating" /\ fi > Len(formats) /\ results # <<>>)
             => generated_notes' = NoteSetOfRun
       /\ (pc = "generating" /\ fi > Len(formats) /\ results = <<>>)
             => generated_notes' = generated_notes]_vars

\* C3 witness: a second run has attempted some formats and the NoteSet of the
\* first run, with other formats, is still held
C3_Witness ==
    /\ pc = "generating"
    /\ 1 < fi /\ fi <= Len(formats)
    /\ results # <<>>
    /\ generated_notes.set
    /\ generated_notes.timestamp # strftime(now)
    /\ Keys(generated_notes.content) \cap Keys(results) = {}

(***************************************************************************)
(* Properties of the chunker (SpecChunker).                                *)
(***************************************************************************)
RECURSIVE SumLen(_, _, _)
SumLen(words, lo, hi) ==
    IF lo > hi THEN 0
    ELSE IF lo = hi THEN Len(words[lo])
    ELSE SumLen(words, lo, (lo + hi) \div 2) + SumLen(words, ((lo + hi) \div 2) + 1, hi)

\* the words of all chunks, in order
RECURSIVE ChunkWords(_, _)
ChunkWords(chunks, i) ==
    IF i > Len(chunks) THEN <<>> ELSE split(chunks[i]) \o ChunkWords(chunks, i + 1)

\* number of windows of m words over n words
NumWindows(n, m) == (n + m - 1) \div m

\* 1-based word positions of window k (k = 0, 1, ...)
WindowFirst(k, m) == k * m + 1
WindowLast(k, m, n) == Min((k + 1) * m, n)

\* character count of window k once its words are rejoined with single spaces
RejoinedLen(words, k, m) ==
    SumLen(words, WindowFirst(k, m), WindowLast(k, m, Len(words)))
        + (WindowLast(k, m, Len(words)) - WindowFirst(k, m))

KeptWindows(words, m) == {k \in 0..(NumWindows(Len(words), m) - 1) : RejoinedLen(words, k, m) > 50}

\* the words of the text that lie in a window of more than 50 characters
WordsOfKeptWindows(words, m) ==
    LET kept == SelectSeq(Indices(words), LAMBDA p : ((p - 1) \div m) \in KeptWindows(words, m))
    IN  [j \in 1..Len(kept) |-> words[kept[j]]]

ChunkerReturned == pc = "returned" /\ out.fn = "split_text_into_chunks"

\* C6 as stated: for non-empty text the words of the chunks are the words of the
\* text, except possibly those of the final window; no word of a non-final window
\* is lost.
C6_OnlyFinalWindowDropped ==
    (ChunkerReturned /\ input_text # <<>>) =>
        LET words == split(input_text)
            lastStart == ((Len(words) - 1) \div max_tokens) * max_tokens
        IN  ChunkWords(out.chunks, 1) \in {words, SubSeq(words, 1, lastStart)}

\* C6 amended: for non-empty text the words of the chunks are, in order and once
\* each, the words of the text that lie in a window whose rejoined length exceeds
\* 50; the words of every window of at most 50 characters, final or not, are gone.
C6_WordsOfKeptWindowsPreserved ==
    (ChunkerReturned /\ input_text # <<>>) =>
        ChunkWords(out.chunks, 1) = WordsOfKeptWindows(split(input_text), max_tokens)

\* C6 witness: a non-final window was dropped while a later window was kept
C6_Witness ==
    /\ ChunkerReturned
    /\ \E k, l \in 0..(NumWindows(Len(split(input_text)), max_tokens) - 1) :
          /\ k < l
          /\ k \notin KeptWindows(split(input_text), max_tokens)
          /\ l \in KeptWindows(split(input_text), max_tokens)
    /\ Len(out.chunks) >= 1

\* C7: every emitted chunk is longer than 50 characters; a window of at most 50
\* characters contributes no chunk and is not merged with a neighbour (there is
\* one chunk per longer window, of at most max_tokens words); text without words
\* yields no chunk.
C7_NoShortChunk ==
    ChunkerReturned =>
        /\ \A i \in 1..Len(out.chunks) : Len(out.chunks[i]) > 50
        /\ Len(out.chunks) = Cardinality(KeptWindows(split(input_text), max_tokens))
        /\ \A i \in 1..Len(out.chunks) : Len(split(out.chunks[i])) <= max_tokens
        /\ (\A i \in 1..Len(input_text) : IsSpace(input_text[i])) => out.chunks = <<>>

\* C7 witness: a window of exactly 50 characters was dropped and another emitted
C7_Witness ==
    /\ ChunkerReturned
    /\ \E k \in 0..(NumWindows(Len(split(input_text)), max_tokens) - 1) :
          RejoinedLen(split(input_text), k, max_tokens) = 50
    /\ Len(out.chunks) >= 1

(***************************************************************************)
(* Properties of the Format Generators (SpecGen).                          *)
(***************************************************************************)
GeneratorReturned == pc = "returned" /\ out.fn \in {AllFormats[k] : k \in 1..Len(AllFormats)}

FallbackText(fmt) ==
    CASE fmt = "Comprehensive Summary" -> <<"C", "o", "u", "l", "d", " ", "n", "o", "t", " ", "g", "e", "n", "e", "r", "a", "t", "e", " ", "s", "u", "m", "m", "a", "r", "y", ".">>
      [] fmt = "Bullet Points" -> <<"C", "o", "u", "l", "d", " ", "n", "o", "t", " ", "g", "e", "n", "e", "r", "a", "t", "e", " ", "b", "u", "l", "l", "e", "t", " ", "p", "o", "i", "n", "t", "s", ".">>
      [] fmt = "Flashcards" -> <<"C", "o", "u", "l", "d", " ", "n", "o", "t", " ", "g", "e", "n", "e", "r", "a", "t", "e", " ", "f", "l", "a", "s", "h", "c", "a", "r", "d", "s", ".">>
      [] fmt = "Q&A Format" -> <<"C", "o", "u", "l", "d", " ", "n", "o", "t", " ", "g", "e", "n", "e", "r", "a", "t", "e", " ", "Q", "&", "A", " ", "p", "a", "i", "r", "s", ".">>
      [] fmt = "Concept Map" -> <<"C", "o", "u", "l", "d", " ", "n", "o", "t", " ", "g", "e", "n", "e", "r", "a", "t", "e", " ", "c", "o", "n", "c", "e", "p", "t", " ", "m", "a", "p", ".">>

EventsOf(kind) == SelectSeq(out.events, LAMBDA e : e.kind = kind)

\* every summarizer call of the generator raised (also when there was no call)
AllCallsFailed == EventsOf("summary") = <<>>

AllCallsSucceeded == EventsOf("error") = <<>>

\* C4: whenever the summarizer fails for every attempted chunk (or there is no
\* chunk), each generator returns its "Could not generate ..." string: it does not
\* raise and the result is not empty.
C4_AllFailedGivesFallback ==
    (GeneratorReturned /\ AllCallsFailed) =>
        /\ ~out.raised
        /\ out.value # <<>>
        /\ out.value = FallbackText(out.fn)

\* C4 witness: several chunks were attempted with a progress sink, every call failed
C4_Witness ==
    /\ GeneratorReturned
    /\ progress_bar
    /\ Len(EventsOf("error")) >= 2
    /\ AllCallsFailed
    /\ out.value = FallbackText(out.fn)

HasFiftyWords == Len(split(input_text)) = 50

\* C5 as stated: on a text of 50 words every generator sees 0 or 1 chunk and
\* returns its fallback string without raising.
C5_FiftyWordsGiveFallback ==
    (GeneratorReturned /\ HasFiftyWords) =>
        /\ Len(out.chunks) <= 1
        /\ ~out.raised
        /\ out.value = FallbackText(out.fn)

\* C5 amended: on a text of 50 words every generator sees 0 or 1 chunk and returns
\* without raising; the result is the fallback string when the summarizer call
\* fails, and an artifact built from the one summary when it succeeds (for
\* Comprehensive Summary, Flashcards and Concept Map never the fallback string).
C5_FiftyWordsOneChunkNoRaise ==
    (GeneratorReturned /\ HasFiftyWords) =>
        /\ Len(out.chunks) <= 1
        /\ Len(EventsOf("call")) = Len(out.chunks)
        /\ ~out.raised
        /\ AllCallsFailed => out.value = FallbackText(out.fn)
        /\ (~AllCallsFailed /\ out.fn \in {"Comprehensive Summary", "Flashcards", "Concept Map"})
              => out.value # FallbackText(out.fn)

\* C5 witness: a 50-word text, one chunk, the call failed, the fallback came back
C5_Witness ==
    /\ GeneratorReturned
    /\ HasFiftyWords
    /\ out.fn = "Bullet Points"
    /\ Len(out.chunks) = 1
    /\ Len(EventsOf("error")) = 1
    /\ out.value = FallbackText("Bullet Points")

Lines(t) == split_sep(t, <<"\n">>)

Blocks(t) == split_sep(t, <<"\n", "\n">>)

startswith(t, prefix) == Len(t) >= Len(prefix) /\ SubSeq(t, 1, Len(prefix)) = prefix

MainTopicLine == <<"M", "a", "i", "n", " ", "T", "o", "p", "i", "c">>

\* the "Concept k" lines of a concept map, in order
ConceptLines(t) ==
    SelectSeq(Lines(t), LAMBDA l : startswith(l, <<"U+251C", "U+2500", " ", "C", "o", "n", "c", "e", "p", "t", " ">>))

\* C8 as stated: the concept map always has the header line "Main Topic", before
\* any node, followed by one "Concept k" node per successful chunk, k = 1, 2, ...
C8_AlwaysMainTopic ==
    (GeneratorReturned /\ out.fn = "Concept Map") =>
        /\ \E h \in 1..Len(Lines(out.value)) :
              /\ Lines(out.value)[h] = MainTopicLine
              /\ \A g \in 1..h : ~startswith(Lines(out.value)[g], <<"U+251C", "U+2500", " ", "C", "o", "n", "c", "e", "p", "t", " ">>)
        /\ ConceptLines(out.value)
              = [k \in 1..Len(EventsOf("summary")) |-> <<"U+251C", "U+2500", " ", "C", "o", "n", "c", "e", "p", "t", " ">> \o str(k)]

\* C8 amended: when at least one attempted chunk was summarized, the concept map
\* is the banner, a rule of 50 "=", an empty line, the header line "Main Topic"
\* and a "|" line, followed by one node of three lines per successful chunk,
\* numbered from 1 in chunk order and carrying that chunk's summary; when none
\* was, the output is the fallback string and has no "Main Topic" line.
C8_MainTopicThenNodes ==
    (GeneratorReturned /\ out.fn = "Concept Map") =>
        LET ok == EventsOf("summary")
            lines == Lines(out.value)
        IN  IF ok = <<>>
            THEN /\ out.value = FallbackText("Concept Map")
                 /\ \A h \in 1..Len(lines) : lines[h] # MainTopicLine
            ELSE /\ Len(lines) = 5 + 3 * Len(ok) + 1
                 /\ lines[1] = <<"U+1F4CA", " ", "C", "O", "N", "C", "E", "P", "T", " ", "M", "A", "P">>
                 /\ lines[2] = [k \in 1..50 |-> "="]
                 /\ lines[3] = <<>>
                 /\ lines[4] = MainTopicLine
                 /\ lines[5] = <<"|">>
                 /\ \A k \in 1..Len(ok) :
                       /\ lines[5 + 3 * (k - 1) + 1] = <<"U+251C", "U+2500", " ", "C", "o", "n", "c", "e", "p", "t", " ">> \o str(k)
                       /\ lines[5 + 3 * (k - 1) + 2] = <<"U+2502", " ", " ", "U+2514", "U+2500", " ">> \o ok[k].text
                       /\ lines[5 + 3 * (k - 1) + 3] = <<"U+2502">>
                 /\ lines[Len(lines)] = <<>>
                 /\ \A k \in 1..(Len(ok) - 1) : ok[k].i < ok[k + 1].i

\* C8 witness: a map of two nodes whose chunks were not neighbours (a call between
\* them failed)
C8_Witness ==
    /\ GeneratorReturned
    /\ out.fn = "Concept Map"
    /\ Len(EventsOf("summary")) >= 2
    /\ EventsOf("summary")[1].i = 0
    /\ EventsOf("summary")[2].i = 2
    /\ Len(ConceptLines(out.value)) = Len(EventsOf("summary"))

\* the attempted chunks of the Q&A generator whose summary has more than 10 words
QAEmitting == SelectSeq(EventsOf("summary"), LAMBDA e : Len(split(e.text)) > 10)

\* C9: each emitted pair is labelled Qn/An with n the 1-based position of its chunk
\* among the attempted chunks (the first 3*D); a chunk whose call fails or whose
\* summary has at most 10 words emits nothing, so the numbers can show gaps.
C9_QANumberedByChunkPosition ==
    (GeneratorReturned /\ out.fn = "Q&A Format") =>
        /\ Len(EventsOf("call")) = Min(Len(out.chunks), 3 * detail_level)
        /\ \A c \in 1..Len(EventsOf("call")) : EventsOf("call")[c].i = c - 1
        /\ IF QAEmitting = <<>>
           THEN out.value = FallbackText("Q&A Format")
           ELSE /\ Len(Blocks(out.value)) = Len(QAEmitting)
                /\ \A j \in 1..Len(QAEmitting) :
                      LET n == QAEmitting[j].i + 1
                          pair == Lines(Blocks(out.value)[j])
                      IN  /\ Len(pair) = 2
                          /\ startswith(pair[1], <<"Q">> \o str(n) \o <<":", " ">>)
                          /\ pair[2] = <<"A">> \o str(n) \o <<":", " ">> \o QAEmitting[j].text

\* C9 witness: chunk 1 of 3 was filtered and the first pair is Q2/A2
C9_Witness ==
    /\ GeneratorReturned
    /\ out.fn = "Q&A Format"
    /\ Len(EventsOf("call")) = 3
    /\ QAEmitting # <<>>
    /\ QAEmitting[1].i = 1
    /\ startswith(out.value, <<"Q", "2", ":">>)

\* number of chunks the chunker makes of the text at m words per chunk
ChunksAvailable(m) == Cardinality(KeptWindows(split(input_text), m))

\* C10: when every call succeeds, the flashcard generator calls the summarizer on
\* the first min(chunks at 500 words, 5*D) chunks, in order and once each, and the
\* output has that many card blocks, labelled Card 1 .. Card N.
C10_FlashcardsCountAndLabels ==
    (GeneratorReturned /\ out.fn = "Flashcards" /\ AllCallsSucceeded) =>
        LET N == Min(ChunksAvailable(500), 5 * detail_level)
            calls == EventsOf("call")
        IN  /\ Len(calls) = N
            /\ \A c \in 1..N : calls[c].i = c - 1 /\ calls[c].text = Take(out.chunks[c], 3000)
            /\ IF N = 0
               THEN out.value = FallbackText("Flashcards")
               ELSE /\ Len(Blocks(out.value)) = N
                    /\ \A j \in 1..N :
                          Lines(Blocks(out.value)[j])[1] = <<"-", "-", "-", " ", "C", "a", "r", "d", " ">> \o str(j) \o <<" ", "-", "-", "-">>

\* C10 witness: more chunks than the cap, every call succeeded, 5*D cards
C10_Witness ==
    /\ GeneratorReturned
    /\ out.fn = "Flashcards"
    /\ AllCallsSucceeded
    /\ Len(out.chunks) > 5 * detail_level
    /\ Len(Blocks(out.value)) = 5 * detail_level
    /\ Len(EventsOf("call")) = 5 * detail_level

(***************************************************************************)
(* Progress signals of a generator (SpecGen).  out.events is the sequence  *)
(* of what the generator did, in the order it did it.                      *)
(***************************************************************************)
\* the events before position p that end a summarizer call (it returned or raised)
OutcomesBefore(p) ==
    {q \in 1..(p - 1) : out.events[q].kind \in {"summary", "error"}}

\* C11: in a generator run with a progress sink, the progress signal of a chunk
\* comes after that chunk's summarizer call has returned or raised, and its value
\* is (chunks completed so far) / (chunks attempted by the generator), in [0,1].
C11_ProgressAfterCompletion ==
    (GeneratorReturned /\ progress_bar) =>
        \A p \in 1..Len(out.events) :
            out.events[p].kind = "progress" =>
                /\ \E q \in OutcomesBefore(p) : out.events[q].i = out.events[p].i
                /\ out.events[p].a = Cardinality(OutcomesBefore(p))
                /\ out.events[p].b = Len(EventsOf("call"))
                /\ 0 <= out.events[p].a
                /\ out.events[p].a <= out.events[p].b

\* what lines 138-146 do: the signal of chunk i is sent first, with the value
\* (i + 1) / (chunks attempted), and the summarizer call of chunk i follows it
ProgressPrecedesCall ==
    (GeneratorReturned /\ progress_bar) =>
        \A p \in 1..Len(out.events) :
            out.events[p].kind = "progress" =>
                /\ p < Len(out.events)
                /\ out.events[p + 1].kind = "call"
                /\ out.events[p + 1].i = out.events[p].i
                /\ out.events[p].a = out.events[p].i + 1
                /\ out.events[p].a = Cardinality(OutcomesBefore(p)) + 1
                /\ out.events[p].b = Len(EventsOf("call"))
                /\ out.events[p].a <= out.events[p].b

\* a run with a progress sink whose last signal reports 1.0 before the last call
ProgressReportedDoneEarly ==
    /\ GeneratorReturned
    /\ progress_bar
    /\ Len(EventsOf("call")) > 1
    /\ \E p \in 1..Len(out.events) :
          /\ out.events[p].kind = "progress"
          /\ out.events[p].a = out.events[p].b
          /\ \E q \in (p + 1)..Len(out.events) : out.events[q].kind = "call"

====
